---- MODULE Spec2Model ----
(***************************************************************************)
(* Radius job-listing acquisition engine: the scrape job runner            *)
(* (executeJob), the four scraper adapters (IndeedScraper, NaukriScraper,  *)
(* PlaywrightIndeedScraper, PlaywrightNaukriScraper) and the job           *)
(* processing pipeline (jobProcessor.js).                                  *)
(*                                                                         *)
(* JavaScript values are tagged records: [t |-> "null"],                   *)
(* [t |-> "undefined"], [t |-> "string", v |-> <<tokens>>] and             *)
(* [t |-> "number", nan |-> b, v |-> n].  A string is a sequence of        *)
(* tokens; " " and                                                         *)
(* "nl" are the whitespace tokens, "(" and ")" the parentheses, "in" the   *)
(* word "in", "http://" and "https://" the URL schemes, "/" the slash.     *)
(***************************************************************************)
EXTENDS Integers, Sequences, FiniteSets, TLC

\* ------------------------------------------------------------------------
\* Bounds of the model
\* ------------------------------------------------------------------------
\* largest jobConfig.maxPages explored with unconstrained page outcomes
MaxPages == 4
\* jobConfig.maxPages of the runs against the "empty from page 2" site stub
StubMaxPages == 10
\* longest fragment list handed to processJobs in PipelineSpec
MaxFrags == 3
\* most jobs in a batch handed to executeMultipleJobs
MaxJobs == 2
\* largest options.maxRetries handed to fetchHtml
MaxRetries == 3
\* most cards matched on a page handed to an extractor
MaxCards == 2
\* most leads handed to one bulkImport call
MaxLeads == 2

\* ------------------------------------------------------------------------
\* JavaScript values
\* ------------------------------------------------------------------------
JNull == [t |-> "null"]
JUndef == [t |-> "undefined"]
JStr(s) == [t |-> "string", v |-> s]
JNum(n) == [t |-> "number", nan |-> FALSE, v |-> n]
\* NaN is a number that compares false with everything
JNaN == [t |-> "number", nan |-> TRUE, v |-> 0]

IsStr(x) == x.t = "string"
IsNum(x) == x.t = "number"

\* JavaScript truthiness (!x is ~Truthy(x))
Truthy(x) ==
  CASE x.t = "string" -> x.v # <<>>
    [] x.t = "number" -> ~x.nan /\ x.v # 0
    [] OTHER -> FALSE

\* a || b
JOr(a, b) == IF Truthy(a) THEN a ELSE b

\* ------------------------------------------------------------------------
\* Strings (token sequences)
\* ------------------------------------------------------------------------
IsWs(c) == c \in {" ", "nl"}

\* The recursions run as functions of the string, so that each call works
\* on the value of its argument.
TrimLeft(s) ==
  LET trim[t \in Seq(STRING)] ==
        IF t # <<>> /\ IsWs(Head(t)) THEN trim[Tail(t)] ELSE t
  IN trim[s]

TrimRight(s) ==
  LET trim[t \in Seq(STRING)] ==
        IF t # <<>> /\ IsWs(t[Len(t)]) THEN trim[SubSeq(t, 1, Len(t) - 1)] ELSE t
  IN trim[s]

\* String.prototype.trim
Trim(s) == TrimRight(TrimLeft(s))

\* s.replace(/\s+/g, ' '): every maximal run of whitespace becomes one space
CollapseWs(s) ==
  LET collapse[t \in Seq(STRING)] ==
        IF t = <<>> THEN <<>>
        ELSE IF IsWs(Head(t))
             THEN <<" ">> \o collapse[TrimLeft(t)]
             ELSE <<Head(t)>> \o collapse[Tail(t)]
  IN collapse[s]

\* s.replace(/\n+/g, ' '): every maximal run of newlines becomes one space
CollapseNl(s) ==
  LET collapse[t \in Seq(STRING)] ==
        IF t = <<>> THEN <<>>
        ELSE IF Head(t) = "nl"
             THEN IF Len(t) > 1 /\ t[2] = "nl"
                  THEN collapse[Tail(t)]
                  ELSE <<" ">> \o collapse[Tail(t)]
             ELSE <<Head(t)>> \o collapse[Tail(t)]
  IN collapse[s]

\* index of the first ")" of s at or after i, 0 when there is none
FirstClose(s, i) ==
  LET P == {j \in i..Len(s) : s[j] = ")"}
  IN IF P = {} THEN 0 ELSE CHOOSE j \in P : \A k \in P : j <= k

\* s.replace(/\(.*?\)/g, ''): each "(" up to the nearest following ")" is cut
StripParens(s) ==
  LET strip[t \in Seq(STRING)] ==
        IF t = <<>> THEN <<>>
        ELSE IF Head(t) = "(" /\ FirstClose(t, 2) # 0
             THEN strip[SubSeq(t, FirstClose(t, 2) + 1, Len(t))]
             ELSE <<Head(t)>> \o strip[Tail(t)]
  IN strip[s]

\* s.replace(/^in\s+/i, ''): a leading "in" followed by whitespace is cut
StripLeadingIn(s) ==
  IF Len(s) >= 2 /\ s[1] = "in" /\ IsWs(s[2]) THEN TrimLeft(Tail(s)) ELSE s

\* s.replace(/â€¢/g, ','): the mis-decoded bullet token becomes a comma
ReplaceBullet(s) == [i \in 1..Len(s) |-> IF s[i] = "bullet" THEN "," ELSE s[i]]

\* ------------------------------------------------------------------------
\* jobProcessor.js
\* ------------------------------------------------------------------------
normalizeString(value) ==
  IF ~Truthy(value) \/ ~IsStr(value) THEN JNull
  ELSE JOr(JStr(CollapseNl(CollapseWs(Trim(value.v)))), JNull)

normalizeCompanyName(company) ==
  IF ~Truthy(company) THEN JNull
  ELSE LET n == normalizeString(company)
       IN IF n = JNull THEN JNull
          ELSE JOr(JStr(Trim(StripParens(n.v))), JNull)

normalizeLocation(location) ==
  IF ~Truthy(location) THEN JNull
  ELSE LET n == normalizeString(location)
       IN IF Truthy(n)
          THEN JStr(Trim(ReplaceBullet(StripLeadingIn(n.v))))
          ELSE n

IsAbsolute(s) == s # <<>> /\ Head(s) \in {"http://", "https://"}

\* new URL(url, baseUrl).toString() for a url that is not absolute; the
\* result is JNull where the constructor throws.  baseUrl is an origin
\* <<scheme, host>>, and the constructor throws on a base that is none.  A
\* url with a scheme of its own ("mailto:") is absolute to the constructor
\* and comes back without the base.
ResolveUrl(s, baseUrl) ==
  IF ~IsAbsolute(baseUrl) \/ Len(baseUrl) < 2 THEN JNull
  ELSE IF Head(s) = "mailto:" THEN JStr(s)
  ELSE IF Head(s) = "//"
  THEN IF Len(s) = 1 THEN JNull
       ELSE JStr(<<Head(baseUrl)>> \o Tail(s)
                 \o (IF Len(s) = 2 THEN <<"/">> ELSE <<>>))
  ELSE IF Head(s) = "/" THEN JStr(baseUrl \o s)
  ELSE JStr(baseUrl \o <<"/">> \o s)

\* a truthy url that is no string has no startsWith: the TypeError is caught
absoluteUrl(url, baseUrl) ==
  IF ~Truthy(url) THEN JNull
  ELSE IF ~IsStr(url) THEN JNull
  ELSE IF IsAbsolute(url.v) THEN url
  ELSE ResolveUrl(url.v, baseUrl)

cleanJob(job, baseUrl) ==
  [jobId |-> normalizeString(job.jobId),
   title |-> normalizeString(job.title),
   company |-> normalizeCompanyName(job.company),
   location |-> normalizeLocation(job.location),
   jobUrl |-> absoluteUrl(job.jobUrl, baseUrl),
   salary |-> normalizeString(job.salary),
   snippet |-> normalizeString(job.snippet),
   page |-> job.page,
   rawHtml |-> JUndef]

cleanJobs(jobs, baseUrl) == [i \in 1..Len(jobs) |-> cleanJob(jobs[i], baseUrl)]

\* `${x}` of a template literal
ToText(x) ==
  CASE x.t = "string" -> x.v
    [] x.t = "null" -> <<"null">>
    [] OTHER -> <<"undefined">>

DedupKey(job, dedupeBy) ==
  CASE dedupeBy = "jobId" -> job.jobId
    [] dedupeBy = "jobUrl" -> job.jobUrl
    [] dedupeBy = "both" -> JStr(ToText(job.jobId) \o <<"|">> \o ToText(job.jobUrl))
    [] OTHER -> JOr(job.jobId, job.jobUrl)

\* the loop of removeDuplicates from element i on, with the keys seen so far
RECURSIVE DedupFrom(_, _, _, _)
DedupFrom(jobs, dedupeBy, i, seen) ==
  IF i > Len(jobs) THEN <<>>
  ELSE LET key == DedupKey(jobs[i], dedupeBy)
       IN IF ~Truthy(key) \/ key \in seen
          THEN DedupFrom(jobs, dedupeBy, i + 1, seen)
          ELSE <<jobs[i]>> \o DedupFrom(jobs, dedupeBy, i + 1, seen \cup {key})

\* a removeDuplicates that returns the newest survivor first
removeDuplicatesNewestFirst(jobs, dedupeBy) ==
  LET unique == DedupFrom(jobs, dedupeBy, 1, {})
  IN [k \in 1..Len(unique) |-> unique[Len(unique) + 1 - k]]

removeDuplicates(jobs, dedupeBy) == DedupFrom(jobs, dedupeBy, 1, {})

IsValidJob(job) ==
  /\ ~(~Truthy(job.title) /\ ~Truthy(job.company))
  /\ ~(~Truthy(job.jobUrl) /\ ~Truthy(job.jobId))

filterValidJobs(jobs) == SelectSeq(jobs, IsValidJob)

\* the only element of a singleton set; {e : x \in {d}} names the value of d
\* as x in e
TheOne(S) == CHOOSE r \in S : TRUE

\* a processJobs that counts as invalid every job missing from the final
\* list, the removed duplicates included
ProcessResultDoubleCount(jobs, cleaned, deduped, processed, opts) ==
  [jobs |-> processed,
   stats |-> [original |-> Len(jobs),
              duplicates |-> Len(cleaned) - Len(deduped),
              invalid |-> IF opts.removeInvalid
                          THEN Len(cleaned) - Len(processed) ELSE 0,
              final |-> Len(processed)]]

\* what processJobs returns, from the lists of its three steps
ProcessResult(jobs, cleaned, deduped, processed, opts) ==
  LET originalCount == Len(jobs)
      beforeDedup == Len(cleaned)
      duplicatesRemoved == beforeDedup - Len(deduped)
      beforeFilter == Len(deduped)
      invalidCount == IF opts.removeInvalid THEN beforeFilter - Len(processed) ELSE 0
  IN [jobs |-> processed,
      stats |-> [original |-> originalCount,
                 duplicates |-> duplicatesRemoved,
                 invalid |-> invalidCount,
                 final |-> Len(processed)]]

\* clean, deduplicate, filter
processJobs(jobs, opts) ==
  TheOne({TheOne({TheOne({ProcessResult(jobs, cleaned, deduped, processed, opts) :
                            processed \in {IF opts.removeInvalid
                                           THEN filterValidJobs(deduped)
                                           ELSE deduped}}) :
                    deduped \in {removeDuplicates(cleaned, opts.dedupeBy)}}) :
            cleaned \in {cleanJobs(jobs, opts.baseUrl)}})

\* ------------------------------------------------------------------------
\* scrapeJobRunner.js: selectScraper
\* ------------------------------------------------------------------------
\* String.prototype.toLowerCase on the tokens that carry upper case
LowerTok(c) ==
  CASE c = "Indeed.com" -> "indeed.com"
    [] c = "Naukri.com" -> "naukri.com"
    [] OTHER -> c

ToLower(s) == [i \in 1..Len(s) |-> LowerTok(s[i])]

\* url.includes(needle), needle a token sequence
Includes(s, needle) ==
  \E i \in 1..Len(s) :
    /\ i + Len(needle) - 1 <= Len(s)
    /\ SubSeq(s, i, i + Len(needle) - 1) = needle

NoScraper == [name |-> "null", baseUrl |-> <<>>]

selectScraper(targetUrl, usePlaywright) ==
  LET url == ToLower(targetUrl)
  IN IF Includes(url, <<"indeed.com">>)
     THEN LET baseUrl == IF Includes(url, <<"in.", "indeed.com">>)
                         THEN <<"https://", "in.indeed.com">>
                         ELSE <<"https://", "www.indeed.com">>
          IN IF usePlaywright
             THEN [name |-> "PlaywrightIndeedScraper", baseUrl |-> baseUrl]
             ELSE [name |-> "IndeedScraper", baseUrl |-> baseUrl]
     ELSE IF Includes(url, <<"naukri.com">>)
     THEN IF usePlaywright
          THEN [name |-> "PlaywrightNaukriScraper",
                baseUrl |-> <<"https://", "www.naukri.com">>]
          ELSE [name |-> "NaukriScraper",
                baseUrl |-> <<"https://", "www.naukri.com">>]
     ELSE NoScraper

IsIndeedFamily(name) == name \in {"IndeedScraper", "PlaywrightIndeedScraper"}
IsNaukriFamily(name) == name \in {"NaukriScraper", "PlaywrightNaukriScraper"}
IsBrowserMode(name) == name \in {"PlaywrightIndeedScraper", "PlaywrightNaukriScraper"}

\* ------------------------------------------------------------------------
\* validateParams of the four adapters
\* ------------------------------------------------------------------------
\* the upper page-count bound of the Naukri adapters
NaukriMaxPages == 20
\* maxPages = 5 when jobConfig.maxPages is falsy
DefaultMaxPages == 5

\* parseInt of a digit token
DigitTok(c) ==
  CASE c = "1" -> 1
    [] c = "5" -> 5
    [] c = "25" -> 25
    [] OTHER -> -1

\* parseInt(x): a number is itself (the model has integers only), a string
\* parses its leading digit token, anything else is NaN
parseInt(x) ==
  CASE x.t = "number" -> x
    [] x.t = "string" ->
         IF TrimLeft(x.v) # <<>> /\ DigitTok(Head(TrimLeft(x.v))) >= 0
         THEN JNum(DigitTok(Head(TrimLeft(x.v))))
         ELSE JNaN
    [] OTHER -> JNaN

KeywordErrors(params) ==
  IF ~Truthy(params.keyword) \/ ~IsStr(params.keyword)
  THEN <<"keyword is required and must be a string">> ELSE <<>>

LocationErrors(params) ==
  IF ~Truthy(params.location) \/ ~IsStr(params.location)
  THEN <<"location is required and must be a string">> ELSE <<>>

\* IndeedScraper.validateParams and PlaywrightIndeedScraper.validateParams
IndeedMaxPagesErrors(params) ==
  IF Truthy(params.maxPages)
     /\ (~IsNum(params.maxPages) \/ params.maxPages.v < 1)
  THEN <<"maxPages must be a positive number">> ELSE <<>>

\* NaukriScraper.validateParams and PlaywrightNaukriScraper.validateParams
NaukriMaxPagesErrors(params) ==
  IF params.maxPages # JUndef
  THEN LET maxPages == parseInt(params.maxPages)
       IN IF maxPages.nan \/ maxPages.v < 1 \/ maxPages.v > NaukriMaxPages
          THEN <<"maxPages must be a number between 1 and 20">> ELSE <<>>
  ELSE <<>>

validateParams(name, params) ==
  LET errors == KeywordErrors(params) \o LocationErrors(params)
                \o (IF IsIndeedFamily(name) THEN IndeedMaxPagesErrors(params)
                    ELSE NaukriMaxPagesErrors(params))
  IN [isValid |-> Len(errors) = 0, errors |-> errors]

\* ------------------------------------------------------------------------
\* State
\* ------------------------------------------------------------------------
VARIABLES
  jobConfig,      \* executeJob's argument
  site,           \* the target site as the run sees it: "free" or "emptyFrom2"
  pc,             \* executeJob: "start", "selected", "scraping", "returned", "thrown"
  scraper,        \* the adapter selectScraper returned
  scrapeParams,   \* the parameters executeJob builds for the adapter
  validation,     \* what validateParams returned
  result,         \* executeJob's result object
  calls,          \* the calls executeJob and scrape have made, in order
  stats,          \* this.stats of the adapter
  browser,        \* this.browser: "null" or "open"
  bpage,          \* this.page: "null" or "open"
  allJobs,        \* the accumulator of scrape()
  page,           \* the loop variable of scrape() (page / currentPage)
  consecutiveEmptyPages,
  spc,            \* scrape(): "idle", "init", "loop", "after", "cleanup", "done"
  ret,            \* how scrape() ends: what it returns or throws
  launched,       \* browser processes chromium.launch() has started
  closeCalls,     \* calls of browser.close()
  pageLog,        \* one record per loop iteration of scrape()
  pIn,            \* PipelineSpec: the fragment list given to processJobs
  pOpts,          \* PipelineSpec: the options given to processJobs
  pOut,           \* PipelineSpec: what processJobs returned
  pAgain,         \* PipelineSpec: what processJobs returned for pOut.jobs
  jobConfigs,     \* executeMultipleJobs: its argument
  stopOnError,    \* executeMultipleJobs: options.stopOnError
  jobIndex,       \* executeMultipleJobs: the loop variable i
  results,        \* executeMultipleJobs: the results pushed so far
  bpc,            \* executeMultipleJobs: "idle", "loop", "job", "delay", "done"
  delays,         \* executeMultipleJobs: delays between jobs awaited so far
  alive,          \* browser processes the earlier jobs of the batch left running
  fetchOpts,      \* fetchHtml: options.maxRetries as the caller passed it
  attempt,        \* fetchHtml: attempt
  lastError,      \* fetchHtml: lastError
  fpc,            \* fetchHtml: "idle", "start", "request", "delay", "done"
  fret,           \* fetchHtml: what it returns or throws
  fetchLog,       \* fetchHtml: the requests issued and delays awaited, in order
  extractor,      \* the adapter whose extractor is called on its own
  jobCards,       \* the cards the extractor's selector matched
  extracted,      \* what the extractor returned
  leadDocs,       \* the documents of the Lead collection, in order of creation
  importCall      \* the last bulkImport call: arguments and what it returned

runVars == <<jobConfig, site, pc, scraper, scrapeParams, validation, result,
             calls, stats, browser, bpage, allJobs, page,
             consecutiveEmptyPages, spc, ret, launched, closeCalls, pageLog>>
scrapeVars == <<stats, browser, bpage, allJobs, page, consecutiveEmptyPages,
                spc, ret, launched, closeCalls, pageLog>>
pipeVars == <<pIn, pOpts, pOut, pAgain>>
batchVars == <<jobConfigs, stopOnError, jobIndex, results, bpc, delays, alive>>
fetchVars == <<fetchOpts, attempt, lastError, fpc, fret, fetchLog>>
extractVars == <<extractor, jobCards, extracted>>
leadVars == <<leadDocs, importCall>>
restVars == <<batchVars, fetchVars, extractVars, leadVars>>
vars == <<jobConfig, site, pc, scraper, scrapeParams, validation, result,
          calls, stats, browser, bpage, allJobs, page,
          consecutiveEmptyPages, spc, ret, launched, closeCalls, pageLog,
          pIn, pOpts, pOut, pAgain,
          jobConfigs, stopOnError, jobIndex, results, bpc, delays, alive,
          fetchOpts, attempt, lastError, fpc, fret, fetchLog,
          extractor, jobCards, extracted, leadDocs, importCall>>

JArr(s) == [t |-> "array", v |-> s]
\* x.length
LengthOf(x) ==
  CASE x.t = "array" -> JNum(Len(x.v))
    [] x.t = "string" -> JNum(Len(x.v))
    [] OTHER -> JUndef

NoRet == [kind |-> "none", value |-> JUndef, msg |-> ""]
Return(x) == [kind |-> "return", value |-> x, msg |-> ""]
Throw(m) == [kind |-> "throw", value |-> JUndef, msg |-> m]

InitStats ==
  [requestsMade |-> 0, successfulRequests |-> 0, failedRequests |-> 0,
   leadsExtracted |-> 0, errors |-> <<>>]

InitResult ==
  [status |-> "pending",
   totalJobs |-> JNum(0), pagesScraped |-> 0, errors |-> <<>>,
   requestsMade |-> JUndef, successfulRequests |-> JUndef,
   failedRequests |-> JUndef,
   jobs |-> JArr(<<>>)]

NoParams == [keyword |-> JUndef, location |-> JUndef, maxPages |-> JUndef]
NoValidation == [isValid |-> FALSE, errors |-> <<>>]
NoOpts == [baseUrl |-> <<>>, dedupeBy |-> "jobId", removeInvalid |-> TRUE]
NoOut == [jobs |-> <<>>,
          stats |-> [original |-> -1, duplicates |-> -1, invalid |-> -1,
                     final |-> -1]]

\* ------------------------------------------------------------------------
\* The inputs of a run
\* ------------------------------------------------------------------------
\* a fragment as an extractor produces it
Frag(jobId, title, company, jobUrl) ==
  [jobId |-> jobId, title |-> title, company |-> company, location |-> JNull,
   jobUrl |-> jobUrl, salary |-> JNull, snippet |-> JNull, page |-> JUndef,
   rawHtml |-> JUndef]

Card(id) == Frag(JStr(<<id>>), JStr(<<"a">>), JStr(<<"b">>), JStr(<<"/", id>>))

\* a card with a title and a company, without job id and without link
NoIdCard == Frag(JNull, JStr(<<"a">>), JStr(<<"b">>), JNull)

\* what a page that has listings may hold
PageYields == {<<Card("j1")>>, <<Card("j2"), NoIdCard>>}

FetchErrors == {"403", "500"}

TargetUrls ==
  {<<"https://", "in.", "indeed.com">>,
   <<"https://", "www.", "Indeed.com">>,
   <<"https://", "www.", "naukri.com">>,
   <<"https://", "example.org">>}

JobConfigs ==
  [targetUrl : TargetUrls,
   keywords : {<<>>, <<<<"a">>>>},
   location : {JUndef},
   maxPages : {JNum(n) : n \in (-1)..MaxPages},
   usePlaywright : BOOLEAN,
   continueOnError : BOOLEAN]

StubConfigs ==
  [targetUrl : TargetUrls,
   keywords : {<<<<"a">>>>},
   location : {JUndef},
   maxPages : {JNum(StubMaxPages)},
   usePlaywright : BOOLEAN,
   continueOnError : BOOLEAN]

\* keywords.join(' ')
RECURSIVE Join(_)
Join(ks) ==
  IF ks = <<>> THEN <<>>
  ELSE IF Len(ks) = 1 THEN Head(ks)
  ELSE Head(ks) \o <<" ">> \o Join(Tail(ks))

\* what fetching and extracting page pageNo can come to, for adapter name
ZeroOutcomes(name) ==
  {[kind |-> "empty", cards |-> <<>>, msg |-> ""]}
  \cup (IF IsBrowserMode(name)
        THEN {[kind |-> "waitTimeout", cards |-> <<>>, msg |-> ""]}
        ELSE {})

\* one outcome per fetchPage / navigation call; an "error" outcome of an HTTP
\* adapter is fetchHtml throwing once its bounded retries are used up
PageOutcomes(name, pageNo) ==
  IF site = "emptyFrom2"
  THEN IF pageNo = 1
       THEN {[kind |-> "jobs", cards |-> <<Card("j1")>>, msg |-> ""]}
       ELSE ZeroOutcomes(name)
  ELSE {[kind |-> "jobs", cards |-> y, msg |-> ""] : y \in PageYields}
       \cup ZeroOutcomes(name)
       \cup {[kind |-> "error", cards |-> <<>>, msg |-> m] : m \in FetchErrors}
       \cup (IF IsBrowserMode(name)
             THEN {[kind |-> "extractError", cards |-> <<>>, msg |-> "evaluate"]}
             ELSE {})

\* the adapter as its constructor leaves it, and scrape() not yet called
ScrapeIdle ==
  /\ stats = InitStats
  /\ browser = "null"
  /\ bpage = "null"
  /\ allJobs = <<>>
  /\ page = 0
  /\ consecutiveEmptyPages = 0
  /\ spc = "idle"
  /\ ret = NoRet
  /\ launched = 0
  /\ closeCalls = 0
  /\ pageLog = <<>>

\* a jobConfig for the specifications that do not run executeJob
IdleConfig ==
  [targetUrl |-> <<"https://", "example.org">>, keywords |-> <<>>,
   location |-> JUndef, maxPages |-> JNum(0), usePlaywright |-> FALSE,
   continueOnError |-> FALSE]

RunInit ==
  /\ \/ site = "free" /\ jobConfig \in JobConfigs
     \/ site = "emptyFrom2" /\ jobConfig \in StubConfigs
  /\ pc = "start"
  /\ scraper = NoScraper
  /\ scrapeParams = NoParams
  /\ validation = NoValidation
  /\ result = InitResult
  /\ calls = <<>>
  /\ ScrapeIdle

PipeIdle == pIn = <<>> /\ pOpts = NoOpts /\ pOut = NoOut /\ pAgain = NoOut

\* executeMultipleJobs not called
BatchIdle ==
  /\ jobConfigs = <<>>
  /\ stopOnError = FALSE
  /\ jobIndex = 0
  /\ results = <<>>
  /\ bpc = "idle"
  /\ delays = 0
  /\ alive = 0

\* fetchHtml not called
FetchIdle ==
  /\ fetchOpts = JUndef
  /\ attempt = 0
  /\ lastError = JUndef
  /\ fpc = "idle"
  /\ fret = NoRet
  /\ fetchLog = <<>>

NotExtracted == [done |-> FALSE, jobs |-> <<>>]

\* no extractor called on its own
ExtractIdle ==
  /\ extractor = "null"
  /\ jobCards = <<>>
  /\ extracted = NotExtracted

NoImport ==
  [leads |-> <<>>, userId |-> JUndef, threw |-> FALSE,
   results |-> [imported |-> 0, duplicates |-> 0, errors |-> 0]]

\* an empty Lead collection and no bulkImport call
LeadIdle ==
  /\ leadDocs = <<>>
  /\ importCall = NoImport

RestIdle == BatchIdle /\ FetchIdle /\ ExtractIdle /\ LeadIdle

Init == RunInit /\ PipeIdle /\ RestIdle

\* ------------------------------------------------------------------------
\* scrapeJobRunner.js: executeJob
\* ------------------------------------------------------------------------
\* a catch block that reports the run it could not start or finish as
\* completed
FailedAsCompleted(res, m) ==
  [res EXCEPT !.status = "completed",
              !.errors = Append(@, [src |-> "executeJob", page |-> 0, msg |-> m])]

\* the catch block: the run fails and the error is recorded
Failed(res, m) ==
  [res EXCEPT !.status = "failed",
              !.errors = Append(@, [src |-> "executeJob", page |-> 0, msg |-> m])]

\* the catch block re-throws unless continueOnError is set
Rethrows(cfg) == ~cfg.continueOnError

EndPc(cfg) == IF Rethrows(cfg) THEN "thrown" ELSE "returned"

\* an executeJob that ignores what validateParams returned
ValidationFailsNever(v) == FALSE

\* validation.isValid is false: executeJob throws before scrape()
ValidationFails(v) == ~v.isValid

BuildParams(cfg) ==
  [keyword |-> JOr(JStr(Join(cfg.keywords)), JStr(<<>>)),
   location |-> JOr(cfg.location, JStr(<<"United States">>)),
   maxPages |-> JOr(cfg.maxPages, JNum(DefaultMaxPages))]

\* the onProgress callback executeJob hands to the adapter
OnProgress(res, currentPage, jobsFound) ==
  [res EXCEPT !.pagesScraped = currentPage,
              !.totalJobs = JOr(JNum(jobsFound), JNum(0))]

ExecSelect ==
  /\ pc = "start"
  /\ scraper' = selectScraper(jobConfig.targetUrl, jobConfig.usePlaywright)
  /\ calls' = Append(calls, "selectScraper")
  /\ IF scraper'.name = "null"
     THEN /\ result' = Failed(result, "No scraper available")
          /\ pc' = EndPc(jobConfig)
     ELSE /\ result' = result
          /\ pc' = "selected"
  /\ UNCHANGED <<jobConfig, site, scrapeParams, validation>>
  /\ UNCHANGED scrapeVars
  /\ UNCHANGED <<pipeVars, restVars>>

ExecValidate ==
  /\ pc = "selected"
  /\ scrapeParams' = BuildParams(jobConfig)
  /\ validation' = validateParams(scraper.name, scrapeParams')
  /\ IF ValidationFails(validation')
     THEN /\ result' = Failed(result, "Invalid parameters")
          /\ pc' = EndPc(jobConfig)
          /\ calls' = Append(calls, "validateParams")
          /\ spc' = spc
     ELSE /\ result' = [result EXCEPT !.status = "running"]
          /\ pc' = "scraping"
          /\ calls' = calls \o <<"validateParams", "scrape">>
          /\ spc' = "init"
  /\ UNCHANGED <<jobConfig, site, scraper>>
  /\ UNCHANGED <<stats, browser, bpage, allJobs, page, consecutiveEmptyPages,
                 ret, launched, closeCalls, pageLog>>
  /\ UNCHANGED <<pipeVars, restVars>>

\* scrape() returned: lines 90-99
ExecComplete ==
  /\ pc = "scraping"
  /\ spc = "done"
  /\ ret.kind = "return"
  /\ result' = [result EXCEPT !.jobs = ret.value,
                              !.totalJobs = LengthOf(ret.value),
                              !.status = "completed",
                              !.errors = stats.errors,
                              !.requestsMade = JNum(stats.requestsMade),
                              !.successfulRequests = JNum(stats.successfulRequests),
                              !.failedRequests = JNum(stats.failedRequests)]
  /\ calls' = Append(calls, "getStats")
  /\ pc' = "returned"
  /\ UNCHANGED <<jobConfig, site, scraper, scrapeParams, validation>>
  /\ UNCHANGED scrapeVars
  /\ UNCHANGED <<pipeVars, restVars>>

\* scrape() threw: lines 107-120
ExecCatch ==
  /\ pc = "scraping"
  /\ spc = "done"
  /\ ret.kind = "throw"
  /\ result' = Failed(result, ret.msg)
  /\ pc' = EndPc(jobConfig)
  /\ UNCHANGED <<jobConfig, site, scraper, scrapeParams, validation, calls>>
  /\ UNCHANGED scrapeVars
  /\ UNCHANGED <<pipeVars, restVars>>

\* ------------------------------------------------------------------------
\* The adapters: scrape()
\* ------------------------------------------------------------------------
MaxP == scrapeParams.maxPages.v

\* the 1-based number of the page the loop is at: the Indeed adapters count
\* page from 0, the Naukri adapters currentPage from 1
PageNoOf(name, p) == IF IsIndeedFamily(name) THEN p + 1 ELSE p
PageNo == PageNoOf(scraper.name, page)

FirstPage(name) == IF IsIndeedFamily(name) THEN 0 ELSE 1

\* a loop that runs one page too far
LoopCondOffByOne(name, p, maxPages) == p <= maxPages

\* the loop condition: page < maxPages, currentPage <= maxPages
LoopCond(name, p, maxPages) ==
  IF IsIndeedFamily(name) THEN p < maxPages ELSE p <= maxPages

\* the loop increment: page++, currentPage++
NextPage(p) == p + 1

\* the guard of the delay between pages
DelayDue(name, p, maxPages) ==
  IF IsIndeedFamily(name) THEN p < maxPages - 1 ELSE p < maxPages

\* fetchPage / navigateToUrl / navigateToPage: the counters of one fetch
FetchOk(st) ==
  [st EXCEPT !.requestsMade = @ + 1, !.successfulRequests = @ + 1]

\* a failed fetch that is recorded but not counted as failed
FetchFailUncounted(st, pageNo, m) ==
  [st EXCEPT !.requestsMade = @ + 1,
             !.errors = Append(@, [src |-> "fetch", page |-> pageNo, msg |-> m])]

FetchFail(st, pageNo, m) ==
  [st EXCEPT !.requestsMade = @ + 1,
             !.failedRequests = @ + 1,
             !.errors = Append(@, [src |-> "fetch", page |-> pageNo, msg |-> m])]

\* the thresholds of IndeedScraper's consecutiveEmptyPages counter
EmptyPagesStop == 2
ErrorPagesStop == 3

\* The outcome of one loop iteration is a record: the new stats, allJobs and
\* consecutiveEmptyPages, brk (break), progress (onProgress called), slept
\* (the delay between pages awaited) and thrown (the message of an error
\* that leaves the loop, "" when none does).
Iter(st, jobs, cep, brk, progress, slept, thrown) ==
  [stats |-> st, allJobs |-> jobs, cep |-> cep, brk |-> brk,
   progress |-> progress, slept |-> slept, thrown |-> thrown]

\* IndeedScraper.scrape, lines 258-320
IndeedIteration(o) ==
  IF o.kind = "error"
  THEN LET st == FetchFail(stats, PageNo, o.msg)
       IN Iter([st EXCEPT !.errors =
                  Append(@, [src |-> "page", page |-> PageNo, msg |-> o.msg])],
               allJobs, consecutiveEmptyPages + 1,
               consecutiveEmptyPages + 1 >= ErrorPagesStop, FALSE, FALSE, "")
  ELSE IF Len(o.cards) = 0
  THEN IF consecutiveEmptyPages + 1 >= EmptyPagesStop
       THEN Iter(FetchOk(stats), allJobs, consecutiveEmptyPages + 1, TRUE,
                 FALSE, FALSE, "")
       ELSE Iter(FetchOk(stats), allJobs, consecutiveEmptyPages + 1, FALSE,
                 TRUE, DelayDue(scraper.name, page, MaxP), "")
  ELSE Iter(FetchOk(stats),
            allJobs \o [i \in 1..Len(o.cards) |->
                          [o.cards[i] EXCEPT !.rawHtml = JStr(<<"html">>)]],
            0, FALSE, TRUE, DelayDue(scraper.name, page, MaxP), "")

\* NaukriScraper.scrape, lines 282-329
NaukriIteration(o) ==
  IF o.kind = "error"
  THEN Iter(FetchFail(stats, PageNo, o.msg), allJobs, consecutiveEmptyPages,
            FALSE, FALSE, FALSE, "")
  ELSE Iter([FetchOk(stats) EXCEPT !.leadsExtracted = @ + Len(o.cards)],
            allJobs \o o.cards, consecutiveEmptyPages,
            Len(o.cards) = 0, TRUE,
            Len(o.cards) # 0 /\ DelayDue(scraper.name, page, MaxP), "")

\* PlaywrightIndeedScraper.extractJobListings, lines 238-249: the href of the
\* card's link made absolute in the browser, or a URL built from the job id
\* when the card has no link
BrowserJobUrl(card, origin) ==
  IF Truthy(card.jobUrl)
  THEN IF IsAbsolute(card.jobUrl.v) THEN card.jobUrl
       ELSE JStr(origin \o card.jobUrl.v)
  ELSE IF Truthy(card.jobId)
       THEN JStr(origin \o <<"/viewjob?jk=">> \o card.jobId.v)
       ELSE JNull

\* PlaywrightIndeedScraper.extractJobListings, lines 216-272: the cards that
\* have a title and a company
extractJobListings(cards, origin) ==
  LET kept == SelectSeq(cards, LAMBDA c : Truthy(c.title) /\ Truthy(c.company))
  IN [i \in 1..Len(kept) |->
        [kept[i] EXCEPT !.jobUrl = BrowserJobUrl(kept[i], origin)]]

\* PlaywrightIndeedScraper.scrape, lines 370-420
PlaywrightIndeedIteration(o) ==
  CASE o.kind = "error" ->
         Iter(FetchFail(stats, PageNo, o.msg), allJobs, consecutiveEmptyPages,
              FALSE, FALSE, FALSE, o.msg)
    [] o.kind = "waitTimeout" ->
         Iter(FetchOk(stats), allJobs, consecutiveEmptyPages,
              FALSE, FALSE, FALSE, "")
    [] o.kind = "extractError" ->
         Iter(FetchOk(stats), allJobs, consecutiveEmptyPages,
              FALSE, FALSE, FALSE, o.msg)
    [] OTHER ->
         Iter([FetchOk(stats) EXCEPT !.leadsExtracted = @ + Len(o.cards)],
              allJobs \o [i \in 1..Len(o.cards) |->
                            [extractJobListings(o.cards, scraper.baseUrl)[i]
                               EXCEPT !.page = JNum(PageNo)]],
              consecutiveEmptyPages, FALSE, TRUE,
              DelayDue(scraper.name, page, MaxP), "")

\* a navigateToPage that lets the timeout of its wait for listing cards
\* reach its outer catch block
PlaywrightNaukriWaitFails(o) ==
  IF o.kind \in {"error", "waitTimeout"}
  THEN Iter(FetchFail(stats, PageNo, "timeout"), allJobs,
            consecutiveEmptyPages, FALSE, FALSE, FALSE, "")
  ELSE Iter([FetchOk(stats) EXCEPT !.leadsExtracted = @ + Len(o.cards)],
            allJobs \o o.cards, consecutiveEmptyPages,
            Len(o.cards) = 0, TRUE,
            Len(o.cards) # 0 /\ DelayDue(scraper.name, page, MaxP), "")

\* PlaywrightNaukriScraper.scrape, lines 263-304; extractJobs returns [] when
\* the evaluation fails
PlaywrightNaukriIteration(o) ==
  IF o.kind = "error"
  THEN Iter(FetchFail(stats, PageNo, o.msg), allJobs, consecutiveEmptyPages,
            FALSE, FALSE, FALSE, "")
  ELSE Iter([FetchOk(stats) EXCEPT !.leadsExtracted = @ + Len(o.cards)],
            allJobs \o o.cards, consecutiveEmptyPages,
            Len(o.cards) = 0, TRUE,
            Len(o.cards) # 0 /\ DelayDue(scraper.name, page, MaxP), "")

\* the state after one iteration of the loop
ApplyIteration(o, it) ==
  /\ stats' = it.stats
  /\ allJobs' = it.allJobs
  /\ consecutiveEmptyPages' = it.cep
  /\ result' = IF it.progress
               THEN OnProgress(result, PageNo, Len(it.allJobs))
               ELSE result
  /\ pageLog' = Append(pageLog,
                       [page |-> PageNo, kind |-> o.kind, n |-> Len(o.cards),
                        cards |-> o.cards,
                        msg |-> o.msg, progress |-> it.progress,
                        slept |-> it.slept])
  /\ IF it.thrown # ""
     THEN /\ page' = page
          /\ spc' = "cleanup"
          /\ ret' = Throw(it.thrown)
     ELSE /\ page' = IF it.brk THEN page ELSE NextPage(page)
          /\ spc' = IF it.brk \/ ~LoopCond(scraper.name, page', MaxP)
                    THEN "after" ELSE "loop"
          /\ ret' = ret
  /\ UNCHANGED <<jobConfig, site, pc, scraper, scrapeParams, validation, calls,
                 browser, bpage, launched, closeCalls>>
  /\ UNCHANGED <<pipeVars, restVars>>

IndeedScraperPage ==
  /\ pc = "scraping" /\ spc = "loop" /\ scraper.name = "IndeedScraper"
  /\ \E o \in PageOutcomes(scraper.name, PageNo) :
       ApplyIteration(o, IndeedIteration(o))

NaukriScraperPage ==
  /\ pc = "scraping" /\ spc = "loop" /\ scraper.name = "NaukriScraper"
  /\ \E o \in PageOutcomes(scraper.name, PageNo) :
       ApplyIteration(o, NaukriIteration(o))

PlaywrightIndeedPage ==
  /\ pc = "scraping" /\ spc = "loop" /\ scraper.name = "PlaywrightIndeedScraper"
  /\ \E o \in PageOutcomes(scraper.name, PageNo) :
       ApplyIteration(o, PlaywrightIndeedIteration(o))

PlaywrightNaukriPage ==
  /\ pc = "scraping" /\ spc = "loop" /\ scraper.name = "PlaywrightNaukriScraper"
  /\ \E o \in PageOutcomes(scraper.name, PageNo) :
       ApplyIteration(o, PlaywrightNaukriIteration(o))

\* IndeedScraper.initialize and NaukriScraper.initialize hold nothing
HttpInitialize ==
  /\ pc = "scraping" /\ spc = "init" /\ ~IsBrowserMode(scraper.name)
  /\ calls' = Append(calls, "initialize")
  /\ page' = FirstPage(scraper.name)
  /\ spc' = IF LoopCond(scraper.name, page', MaxP) THEN "loop" ELSE "after"
  /\ UNCHANGED <<jobConfig, site, pc, scraper, scrapeParams, validation, result,
                 stats, browser, bpage, allJobs, consecutiveEmptyPages, ret,
                 launched, closeCalls, pageLog>>
  /\ UNCHANGED <<pipeVars, restVars>>

InitOutcomes == {"ok", "launchFail", "contextFail"}

\* PlaywrightIndeedScraper.initialize and PlaywrightNaukriScraper.initialize:
\* chromium.launch(), browser.newContext(), context.newPage(); an error is
\* re-thrown and scrape() goes to its finally block
BrowserInitialize ==
  /\ pc = "scraping" /\ spc = "init" /\ IsBrowserMode(scraper.name)
  /\ calls' = Append(calls, "initialize")
  /\ \E o \in InitOutcomes :
       /\ browser' = IF o = "launchFail" THEN browser ELSE "open"
       /\ launched' = IF o = "launchFail" THEN launched ELSE launched + 1
       /\ bpage' = IF o = "ok" THEN "open" ELSE bpage
       /\ IF o = "ok"
          THEN /\ page' = FirstPage(scraper.name)
               /\ spc' = IF LoopCond(scraper.name, page', MaxP)
                         THEN "loop" ELSE "after"
               /\ ret' = ret
          ELSE /\ page' = page
               /\ spc' = "cleanup"
               /\ ret' = Throw(o)
  /\ UNCHANGED <<jobConfig, site, pc, scraper, scrapeParams, validation, result,
                 stats, allJobs, consecutiveEmptyPages, closeCalls, pageLog>>
  /\ UNCHANGED <<pipeVars, restVars>>

JObj(r) == [t |-> "object", jobs |-> r.jobs, stats |-> r.stats]

IndeedOpts(sc) == [baseUrl |-> sc.baseUrl, dedupeBy |-> "jobId", removeInvalid |-> TRUE]
\* processJobs(allJobs) with its defaults
DefaultOpts ==
  [baseUrl |-> <<"https://", "www.indeed.com">>, dedupeBy |-> "jobId",
   removeInvalid |-> TRUE]

\* IndeedScraper.scrape, lines 322-347: the jobs of processJobs are returned
\* and the finally block calls cleanup(), which holds nothing
IndeedFinish ==
  /\ pc = "scraping" /\ spc = "after" /\ scraper.name = "IndeedScraper"
  /\ stats' = [stats EXCEPT !.successfulRequests =
                              stats.requestsMade - stats.failedRequests]
  /\ ret' = Return(JArr(processJobs(allJobs, IndeedOpts(scraper)).jobs))
  /\ calls' = Append(calls, "cleanup")
  /\ spc' = "done"
  /\ UNCHANGED <<jobConfig, site, pc, scraper, scrapeParams, validation, result,
                 browser, bpage, allJobs, page, consecutiveEmptyPages,
                 launched, closeCalls, pageLog>>
  /\ UNCHANGED <<pipeVars, restVars>>

\* NaukriScraper.scrape, lines 331-339: what processJobs returned is returned
\* as it is; there is no finally block
NaukriFinish ==
  /\ pc = "scraping" /\ spc = "after" /\ scraper.name = "NaukriScraper"
  /\ ret' = Return(JObj(processJobs(allJobs, DefaultOpts)))
  /\ spc' = "done"
  /\ UNCHANGED <<jobConfig, site, pc, scraper, scrapeParams, validation, result,
                 calls, stats, browser, bpage, allJobs, page,
                 consecutiveEmptyPages, launched, closeCalls, pageLog>>
  /\ UNCHANGED <<pipeVars, restVars>>

\* PlaywrightIndeedScraper.scrape, lines 422-425: allJobs is returned
PlaywrightIndeedFinish ==
  /\ pc = "scraping" /\ spc = "after" /\ scraper.name = "PlaywrightIndeedScraper"
  /\ ret' = Return(JArr(allJobs))
  /\ spc' = "cleanup"
  /\ UNCHANGED <<jobConfig, site, pc, scraper, scrapeParams, validation, result,
                 calls, stats, browser, bpage, allJobs, page,
                 consecutiveEmptyPages, launched, closeCalls, pageLog>>
  /\ UNCHANGED <<pipeVars, restVars>>

\* PlaywrightNaukriScraper.scrape, lines 306-313
PlaywrightNaukriFinish ==
  /\ pc = "scraping" /\ spc = "after" /\ scraper.name = "PlaywrightNaukriScraper"
  /\ ret' = Return(JObj(processJobs(allJobs, DefaultOpts)))
  /\ spc' = "cleanup"
  /\ UNCHANGED <<jobConfig, site, pc, scraper, scrapeParams, validation, result,
                 calls, stats, browser, bpage, allJobs, page,
                 consecutiveEmptyPages, launched, closeCalls, pageLog>>
  /\ UNCHANGED <<pipeVars, restVars>>

\* how cleanup() can go: page.close() is awaited only when this.page is set,
\* browser.close() only when this.browser is set and page.close() did not fail
CleanupOutcomes ==
  {"ok"} \cup (IF bpage = "open" THEN {"pageCloseFail"} ELSE {})
         \cup (IF browser = "open" THEN {"browserCloseFail"} ELSE {})

\* browser.close() is called
ClosesBrowser(o) == browser = "open" /\ o # "pageCloseFail"

\* PlaywrightIndeedScraper.cleanup catches what close() throws;
\* PlaywrightNaukriScraper.cleanup does not, and the error leaves the finally
\* block of scrape() in place of what scrape() was returning or throwing
CleanupThrows(name, o) == name = "PlaywrightNaukriScraper" /\ o # "ok"

BrowserCleanup ==
  /\ pc = "scraping" /\ spc = "cleanup"
  /\ calls' = Append(calls, "cleanup")
  /\ \E o \in CleanupOutcomes :
       /\ bpage' = IF o = "pageCloseFail" THEN bpage ELSE "null"
       /\ browser' = IF o = "ok" THEN "null" ELSE browser
       /\ closeCalls' = IF ClosesBrowser(o) THEN closeCalls + 1 ELSE closeCalls
       /\ ret' = IF CleanupThrows(scraper.name, o) THEN Throw(o) ELSE ret
  /\ spc' = "done"
  /\ UNCHANGED <<jobConfig, site, pc, scraper, scrapeParams, validation, result,
                 stats, allJobs, page, consecutiveEmptyPages, launched, pageLog>>
  /\ UNCHANGED <<pipeVars, restVars>>

RunNext ==
  \/ ExecSelect
  \/ ExecValidate
  \/ HttpInitialize
  \/ BrowserInitialize
  \/ IndeedScraperPage
  \/ NaukriScraperPage
  \/ PlaywrightIndeedPage
  \/ PlaywrightNaukriPage
  \/ IndeedFinish
  \/ NaukriFinish
  \/ PlaywrightIndeedFinish
  \/ PlaywrightNaukriFinish
  \/ BrowserCleanup
  \/ ExecComplete
  \/ ExecCatch

\* ------------------------------------------------------------------------
\* validateParams called on its own (as the test scripts call it)
\* ------------------------------------------------------------------------
AdapterNames ==
  {"IndeedScraper", "PlaywrightIndeedScraper", "NaukriScraper",
   "PlaywrightNaukriScraper"}

TextInputs == {JUndef, JNull, JStr(<<>>), JStr(<<"a">>), JNum(5)}

MaxPagesInputs ==
  {JUndef, JNull, JNaN, JStr(<<"5">>), JStr(<<"25">>), JStr(<<"a">>)}
  \cup {JNum(n) : n \in {-1, 0, 1, 2, NaukriMaxPages, NaukriMaxPages + 1}}

ValidateInit ==
  /\ site = "free"
  /\ jobConfig = IdleConfig
  /\ pc = "direct"
  /\ scraper \in {[name |-> n, baseUrl |-> <<"https://", "in.indeed.com">>] :
                    n \in AdapterNames}
  /\ scrapeParams \in [keyword : TextInputs, location : TextInputs,
                       maxPages : MaxPagesInputs]
  /\ validation = NoValidation
  /\ result = InitResult
  /\ calls = <<>>
  /\ ScrapeIdle
  /\ PipeIdle
  /\ RestIdle

\* scraper.validateParams(params)
ValidateOnly ==
  /\ pc = "direct"
  /\ validation' = validateParams(scraper.name, scrapeParams)
  /\ calls' = Append(calls, "validateParams")
  /\ pc' = "validated"
  /\ UNCHANGED <<jobConfig, site, scraper, scrapeParams, result>>
  /\ UNCHANGED scrapeVars
  /\ UNCHANGED <<pipeVars, restVars>>

ValidateNext == ValidateOnly

ValidateSpec == ValidateInit /\ [][ValidateNext]_vars

\* ------------------------------------------------------------------------
\* selectScraper as executeJob calls it, over more target URLs
\* ------------------------------------------------------------------------
\* a URL is <<scheme>> \o host \o rest; the rest starts with "/" or "?q="
UrlHosts ==
  {<<"in.", "indeed.com">>, <<"www.", "indeed.com">>, <<"www.", "Indeed.com">>,
   <<"www.", "naukri.com">>, <<"www.", "Naukri.com">>, <<"naukri.com">>,
   <<"example.org">>}

UrlRests ==
  {<<>>, <<"/", "jobs">>, <<"/", "indeed.com">>, <<"/", "naukri.com">>,
   <<"?q=", "in.", "indeed.com">>}

SelectUrls ==
  {<<scheme>> \o host \o rest :
     scheme \in {"http://", "https://"}, host \in UrlHosts, rest \in UrlRests}

SelectInit ==
  /\ site = "free"
  /\ jobConfig \in [targetUrl : SelectUrls, keywords : {<<<<"a">>>>},
                    location : {JUndef}, maxPages : {JNum(1)},
                    usePlaywright : BOOLEAN, continueOnError : BOOLEAN]
  /\ pc = "start"
  /\ scraper = NoScraper
  /\ scrapeParams = NoParams
  /\ validation = NoValidation
  /\ result = InitResult
  /\ calls = <<>>
  /\ ScrapeIdle
  /\ PipeIdle
  /\ RestIdle

SelectNext == ExecSelect

SelectSpec == SelectInit /\ [][SelectNext]_vars

\* ------------------------------------------------------------------------
\* processJobs called on its own
\* ------------------------------------------------------------------------
S(x) == JStr(<<x>>)

\* a fragment whose extractor found a location
WithLocation(frag, location) == [frag EXCEPT !.location = location]

PipeFrags ==
  {Frag(S("1"), S("a"), S("b"), JStr(<<"/", "p">>)),
   Frag(S("2"), S("a"), S("b"), JNull),
   Frag(JStr(<<" ", "1", " ">>), S("a"), JNull, JStr(<<"/", "p">>)),
   Frag(JNull, S("a"), S("b"), JStr(<<"/", "q">>)),
   Frag(S("2"), JNull, JStr(<<"(", "r", ")">>), JStr(<<"/", "q">>)),
   Frag(S(" "), S("a"), S("b"), JNull),
   Frag(S("3"), JNull, JNull, JNull),
   Frag(S("4"), S("a"), JStr(<<"b", " ", "(", "r", ")", " ", "c">>), JNull),
   WithLocation(Frag(S("5"), S("a"), S("b"), JNull),
                JStr(<<"in", " ", "in", " ", "x">>))}

\* twelve cards with twelve job ids
TwelveCards == [k \in 1..12 |-> Card(ToString(k))]

\* a card with a job id of its own and neither title nor company
UntitledCard == Frag(S("13"), JNull, JNull, JStr(<<"/", "13">>))

\* s with x put in at position p
InsertAt(s, p, x) == SubSeq(s, 1, p - 1) \o <<x>> \o SubSeq(s, p, Len(s))

\* what an adapter may hand over after a run: the twelve cards, two of them
\* extracted a second time, and the untitled card somewhere among them
FifteenFrags ==
  {InsertAt(TwelveCards \o <<TwelveCards[a], TwelveCards[b]>>, p, UntitledCard) :
     a \in {1, 7}, b \in {7, 12}, p \in {1, 8, 15}}

PipeOpts ==
  [baseUrl : {<<"https://", "in.indeed.com">>},
   dedupeBy : {"jobId", "jobUrl", "both", "id-or-url"},
   removeInvalid : BOOLEAN]

PipeInit ==
  /\ site = "free"
  /\ jobConfig = IdleConfig
  /\ pc = "direct"
  /\ scraper = NoScraper
  /\ scrapeParams = NoParams
  /\ validation = NoValidation
  /\ result = InitResult
  /\ calls = <<>>
  /\ ScrapeIdle
  /\ pIn \in UNION {[1..n -> PipeFrags] : n \in 0..MaxFrags} \cup FifteenFrags
  /\ pOpts \in PipeOpts
  /\ pOut = NoOut
  /\ pAgain = NoOut
  /\ RestIdle

\* processJobs(jobs, options)
RunProcessJobs ==
  /\ pc = "direct"
  /\ pOut = NoOut
  /\ pOut' = processJobs(pIn, pOpts)
  /\ UNCHANGED <<pIn, pOpts, pAgain>>
  /\ UNCHANGED <<runVars, restVars>>

\* processJobs(processJobs(jobs, options).jobs, options)
RunProcessJobsAgain ==
  /\ pc = "direct"
  /\ pOut # NoOut
  /\ pAgain = NoOut
  /\ pAgain' = processJobs(pOut.jobs, pOpts)
  /\ UNCHANGED <<pIn, pOpts, pOut>>
  /\ UNCHANGED <<runVars, restVars>>

PipeNext == RunProcessJobs \/ RunProcessJobsAgain

\* processJobs called on one fragment, over more detail URLs and base URLs
DetailUrls ==
  {JNull, JStr(<<>>), JNum(5),
   JStr(<<"/", "p">>), JStr(<<"viewjob">>),
   JStr(<<"//", "cdn.example.org">>), JStr(<<"//">>),
   JStr(<<"https://", "example.org", "/", "p">>),
   JStr(<<"http://">>), JStr(<<"https://", " ", "p">>),
   JStr(<<"mailto:", "hr">>)}

BaseUrls ==
  {<<"https://", "www.indeed.com">>, <<"http://", "www.naukri.com">>, <<>>}

UrlInit ==
  /\ site = "free"
  /\ jobConfig = IdleConfig
  /\ pc = "direct"
  /\ scraper = NoScraper
  /\ scrapeParams = NoParams
  /\ validation = NoValidation
  /\ result = InitResult
  /\ calls = <<>>
  /\ ScrapeIdle
  /\ pIn \in {<<Frag(S("1"), S("a"), S("b"), url)>> : url \in DetailUrls}
  /\ pOpts \in [baseUrl : BaseUrls,
                 dedupeBy : {"jobId", "jobUrl", "both", "id-or-url"},
                 removeInvalid : BOOLEAN]
  /\ pOut = NoOut
  /\ pAgain = NoOut
  /\ RestIdle

UrlSpec == UrlInit /\ [][PipeNext]_vars

PipelineSpec == PipeInit /\ [][PipeNext]_vars

\* ------------------------------------------------------------------------
\* A run of executeJob
\* ------------------------------------------------------------------------
Next == RunNext

Spec == Init /\ [][Next]_vars

\* the program as its callers use it: a run of executeJob, or processJobs
\* called on a fragment list
AnySpec == (Init \/ PipeInit) /\ [][Next \/ PipeNext]_vars

\* every step of a run is a step of one thread of control that is not
\* suspended for ever: each await is bounded by a timeout
FairSpec == Spec /\ WF_vars(Next)

\* ------------------------------------------------------------------------
\* scrapeJobRunner.js: executeMultipleJobs
\* ------------------------------------------------------------------------
\* the jobs of a batch
BatchConfigs ==
  [targetUrl : {<<"https://", "in.", "indeed.com">>,
                <<"https://", "www.", "naukri.com">>,
                <<"https://", "example.org">>},
   keywords : {<<<<"a">>>>},
   location : {JUndef},
   maxPages : {JNum(1)},
   usePlaywright : BOOLEAN,
   continueOnError : BOOLEAN]

BatchInit ==
  /\ site = "free"
  /\ jobConfig = IdleConfig
  /\ pc = "idle"
  /\ scraper = NoScraper
  /\ scrapeParams = NoParams
  /\ validation = NoValidation
  /\ result = InitResult
  /\ calls = <<>>
  /\ ScrapeIdle
  /\ PipeIdle
  /\ jobConfigs \in UNION {[1..n -> BatchConfigs] : n \in 1..MaxJobs}
  /\ stopOnError \in BOOLEAN
  /\ jobIndex = 0
  /\ results = <<>>
  /\ bpc = "loop"
  /\ delays = 0
  /\ alive = 0
  /\ FetchIdle
  /\ ExtractIdle
  /\ LeadIdle

\* the loop test i < jobConfigs.length and, when it holds, the call
\* executeJob(jobConfigs[i]): a new result object and, in selectScraper, a
\* new adapter
BatchLoop ==
  /\ bpc = "loop"
  /\ IF jobIndex < Len(jobConfigs)
     THEN /\ bpc' = "job"
          /\ jobConfig' = jobConfigs[jobIndex + 1]
          /\ pc' = "start"
     ELSE /\ bpc' = "done"
          /\ jobConfig' = jobConfig
          /\ pc' = pc
  /\ scraper' = NoScraper
  /\ scrapeParams' = NoParams
  /\ validation' = NoValidation
  /\ result' = InitResult
  /\ calls' = <<>>
  /\ stats' = InitStats
  /\ browser' = "null"
  /\ bpage' = "null"
  /\ allJobs' = <<>>
  /\ page' = 0
  /\ consecutiveEmptyPages' = 0
  /\ spc' = "idle"
  /\ ret' = NoRet
  /\ launched' = 0
  /\ closeCalls' = 0
  /\ pageLog' = <<>>
  /\ UNCHANGED <<site, jobConfigs, stopOnError, jobIndex, results, delays, alive>>
  /\ UNCHANGED <<pipeVars, fetchVars, extractVars, leadVars>>

\* executeJob returned or threw: lines 222-241; the result, or the record
\* built in the catch block, is pushed, and the loop breaks or goes on to
\* the delay between jobs
BatchJobEnd ==
  /\ bpc = "job"
  /\ pc \in {"returned", "thrown"}
  /\ results' = Append(results, [status |-> result.status,
                                 thrown |-> pc = "thrown"])
  /\ alive' = alive + (launched - closeCalls)
  /\ pc' = "idle"
  /\ IF result.status = "failed" /\ stopOnError
     THEN bpc' = "done" /\ jobIndex' = jobIndex
     ELSE IF jobIndex < Len(jobConfigs) - 1
     THEN bpc' = "delay" /\ jobIndex' = jobIndex
     ELSE bpc' = "loop" /\ jobIndex' = jobIndex + 1
  /\ UNCHANGED <<jobConfig, site, scraper, scrapeParams, validation, result,
                 calls, jobConfigs, stopOnError, delays>>
  /\ UNCHANGED scrapeVars
  /\ UNCHANGED <<pipeVars, fetchVars, extractVars, leadVars>>

\* await delay(5000) is over: lines 244-247, then i++
BatchDelay ==
  /\ bpc = "delay"
  /\ delays' = delays + 1
  /\ jobIndex' = jobIndex + 1
  /\ bpc' = "loop"
  /\ UNCHANGED <<jobConfigs, stopOnError, results, alive>>
  /\ UNCHANGED runVars
  /\ UNCHANGED <<pipeVars, fetchVars, extractVars, leadVars>>

BatchNext == BatchLoop \/ BatchJobEnd \/ BatchDelay \/ RunNext

BatchSpec == BatchInit /\ [][BatchNext]_vars

\* ------------------------------------------------------------------------
\* httpClient.js: fetchHtml
\* ------------------------------------------------------------------------
\* maxRetries = 0 in the destructuring of options
DefaultRetries == 0

\* a fetchHtml that allows one attempt more than its budget
MaxRetriesOneMore(opt) == (IF opt = JUndef THEN DefaultRetries ELSE opt.v) + 1

MaxRetriesOf(opt) == IF opt = JUndef THEN DefaultRetries ELSE opt.v

\* what one axios(config) call comes to: a response with a status and a
\* body, or an error with a code and no response
Response(status) ==
  [status |-> status, code |-> "", data |-> <<"html", ToString(status)>>]
NetworkError(code) == [status |-> 0, code |-> code, data |-> <<>>]

Responses ==
  {Response(st) : st \in {200, 204, 302, 403, 404, 429, 500}}
  \cup {NetworkError(c) : c \in {"ECONNABORTED", "ENOTFOUND", "ECONNREFUSED", "EPIPE"}}

\* response.status >= 200 && response.status < 300
IsSuccess(r) == r.code = "" /\ r.status >= 200 /\ r.status < 300

\* the message of the error fetchHtml keeps for a failed attempt
ErrorOf(r) ==
  CASE r.code = "ECONNABORTED" -> JStr(<<"Request timeout">>)
    [] r.code = "ENOTFOUND" -> JStr(<<"Domain not found">>)
    [] r.code = "ECONNREFUSED" -> JStr(<<"Connection refused">>)
    [] r.code # "" -> JStr(<<r.code>>)
    [] r.status = 404 -> JStr(<<"Page not found">>)
    [] r.status = 403 -> JStr(<<"Access forbidden">>)
    [] r.status = 429 -> JStr(<<"Rate limited">>)
    [] r.status >= 500 -> JStr(<<"Server error", ToString(r.status)>>)
    [] OTHER -> JStr(<<"HTTP", ToString(r.status)>>)

RequestEvent(r) == [ev |-> "request", resp |-> r]
DelayEvent == [ev |-> "delay", resp |-> NetworkError("")]

FetchInit ==
  /\ site = "free"
  /\ jobConfig = IdleConfig
  /\ pc = "idle"
  /\ scraper = NoScraper
  /\ scrapeParams = NoParams
  /\ validation = NoValidation
  /\ result = InitResult
  /\ calls = <<>>
  /\ ScrapeIdle
  /\ PipeIdle
  /\ BatchIdle
  /\ fetchOpts \in {JUndef} \cup {JNum(n) : n \in (-1)..MaxRetries}
  /\ attempt = 0
  /\ lastError = JUndef
  /\ fpc = "start"
  /\ fret = NoRet
  /\ fetchLog = <<>>
  /\ ExtractIdle
  /\ LeadIdle

\* the loop test while (attempt <= maxRetries), on entry and after a delay;
\* when it fails fetchHtml throws lastError
FetchLoopTest(a) ==
  IF a <= MaxRetriesOf(fetchOpts) THEN "request" ELSE "done"

\* fetchHtml is called: lines 20-53
FetchStart ==
  /\ fpc = "start"
  /\ fpc' = FetchLoopTest(attempt)
  /\ fret' = IF fpc' = "done" THEN [Throw("lastError") EXCEPT !.value = lastError]
             ELSE fret
  /\ UNCHANGED <<fetchOpts, attempt, lastError, fetchLog>>
  /\ UNCHANGED <<runVars, pipeVars, batchVars, extractVars, leadVars>>

\* one pass of the loop body up to its next await: lines 54-107
FetchAttempt ==
  /\ fpc = "request"
  /\ \E r \in Responses :
       /\ fetchLog' = Append(fetchLog, RequestEvent(r))
       /\ IF IsSuccess(r)
          THEN /\ fret' = Return(JStr(r.data))
               /\ fpc' = "done"
               /\ UNCHANGED <<attempt, lastError>>
          ELSE /\ lastError' = ErrorOf(r)
               /\ IF attempt < MaxRetriesOf(fetchOpts)
                  THEN /\ attempt' = attempt + 1
                       /\ fpc' = "delay"
                       /\ fret' = fret
                  ELSE /\ attempt' = attempt
                       /\ fpc' = "done"
                       /\ fret' = [Throw("lastError") EXCEPT !.value = lastError']
  /\ UNCHANGED fetchOpts
  /\ UNCHANGED <<runVars, pipeVars, batchVars, extractVars, leadVars>>

\* await delay(retryDelay) is over, continue: lines 97-98 and 53
FetchRetryDelay ==
  /\ fpc = "delay"
  /\ fetchLog' = Append(fetchLog, DelayEvent)
  /\ fpc' = FetchLoopTest(attempt)
  /\ fret' = IF fpc' = "done" THEN [Throw("lastError") EXCEPT !.value = lastError]
             ELSE fret
  /\ UNCHANGED <<fetchOpts, attempt, lastError>>
  /\ UNCHANGED <<runVars, pipeVars, batchVars, extractVars, leadVars>>

FetchNext == FetchStart \/ FetchAttempt \/ FetchRetryDelay

FetchSpec == FetchInit /\ [][FetchNext]_vars

\* ------------------------------------------------------------------------
\* The extractors: parseJobListings, extractJobListings, extractJobs
\* ------------------------------------------------------------------------
\* A matched card holds, for each text field, the text of the first element
\* its selector finds, or JUndef when it finds none.
ElementTexts == {JUndef, JStr(<<>>), JStr(<<" ">>), JStr(<<" ", "a", " ">>)}

MatchedCards ==
  [title : ElementTexts, company : ElementTexts,
   location : {JUndef, JStr(<<"x">>)}]

\* $card.find(...).first().text().trim() || null: the text of an empty
\* selection is ''
CheerioText(el) ==
  JOr(JStr(Trim(IF el = JUndef THEN <<>> ELSE el.v)), JNull)

\* element ? element.textContent.trim() : null
BrowserText(el) == IF el = JUndef THEN JNull ELSE JStr(Trim(el.v))

CheerioFields(card) ==
  WithLocation(Frag(JNull, CheerioText(card.title), CheerioText(card.company),
                    JNull),
               CheerioText(card.location))

BrowserFields(card) ==
  WithLocation(Frag(JNull, BrowserText(card.title), BrowserText(card.company),
                    JNull),
               BrowserText(card.location))

\* if (title || company) jobs.push(...)
HasTitleOrCompany(job) == Truthy(job.title) \/ Truthy(job.company)

\* IndeedScraper.parseJobListings and NaukriScraper.parseJobListings
parseJobListings(cards) ==
  SelectSeq([k \in 1..Len(cards) |-> CheerioFields(cards[k])], HasTitleOrCompany)

\* PlaywrightNaukriScraper.extractJobs
extractJobs(cards) ==
  SelectSeq([k \in 1..Len(cards) |-> BrowserFields(cards[k])], HasTitleOrCompany)

\* the extractor of adapter name applied to the matched cards
Extract(name, cards) ==
  CASE name = "PlaywrightIndeedScraper" ->
         extractJobListings([k \in 1..Len(cards) |-> BrowserFields(cards[k])],
                            <<"https://", "www.indeed.com">>)
    [] name = "PlaywrightNaukriScraper" -> extractJobs(cards)
    [] OTHER -> parseJobListings(cards)

ExtractInit ==
  /\ site = "free"
  /\ jobConfig = IdleConfig
  /\ pc = "idle"
  /\ scraper = NoScraper
  /\ scrapeParams = NoParams
  /\ validation = NoValidation
  /\ result = InitResult
  /\ calls = <<>>
  /\ ScrapeIdle
  /\ PipeIdle
  /\ BatchIdle
  /\ FetchIdle
  /\ extractor \in AdapterNames
  /\ jobCards \in UNION {[1..n -> MatchedCards] : n \in 0..MaxCards}
  /\ extracted = NotExtracted
  /\ LeadIdle

RunExtractor ==
  /\ extractor # "null"
  /\ ~extracted.done
  /\ extracted' = [done |-> TRUE, jobs |-> Extract(extractor, jobCards)]
  /\ UNCHANGED <<extractor, jobCards>>
  /\ UNCHANGED <<runVars, pipeVars, batchVars, fetchVars, leadVars>>

ExtractNext == RunExtractor

ExtractSpec == ExtractInit /\ [][ExtractNext]_vars

\* ------------------------------------------------------------------------
\* leadService.js: bulkImport, and the Lead model
\* ------------------------------------------------------------------------
UserIds == {JStr(<<"u1">>), JStr(<<"u2">>)}

\* the lead objects handed to bulkImport: with or without an email, with or
\* without the name the schema requires
LeadInputs ==
  [email : {JUndef, JStr(<<"e1">>), JStr(<<"e2">>)},
   name : {JUndef, JStr(<<"n">>)}]

\* Lead.findOne({ email, createdBy })
findOne(docs, email, createdBy) ==
  \E d \in 1..Len(docs) :
    docs[d].email = email /\ docs[d].createdBy = createdBy

\* Lead.create rejects: the schema requires name, and the index the schema
\* declares on email alone is unique
CreateFails(docs, data) ==
  \/ ~Truthy(data.name)
  \/ \E d \in 1..Len(docs) : docs[d].email = data.email

\* the loop of bulkImport from lead k on: acc holds the collection and the
\* counters so far
RECURSIVE ImportFrom(_, _, _, _)
ImportFrom(leads, userId, k, acc) ==
  IF k > Len(leads) THEN acc
  ELSE LET data == leads[k]
           r == acc.results
       IN ImportFrom(leads, userId, k + 1,
            IF ~Truthy(data.email)
            THEN [acc EXCEPT !.results.errors = @ + 1]
            ELSE IF findOne(acc.docs, data.email, userId)
            THEN [acc EXCEPT !.results.duplicates = @ + 1]
            ELSE IF CreateFails(acc.docs, data)
            THEN [acc EXCEPT !.results.errors = @ + 1]
            ELSE [docs |-> Append(acc.docs,
                                  [email |-> data.email, name |-> data.name,
                                   createdBy |-> userId]),
                  results |-> [r EXCEPT !.imported = @ + 1]])

\* bulkImport(leads, userId)
bulkImport ==
  \E leads \in UNION {[1..n -> LeadInputs] : n \in 0..MaxLeads},
     userId \in UserIds \cup {JUndef} :
    IF ~Truthy(userId)
    THEN /\ importCall' = [NoImport EXCEPT !.leads = leads, !.userId = userId,
                                          !.threw = TRUE]
         /\ leadDocs' = leadDocs
    ELSE LET out == ImportFrom(leads, userId, 1,
                               [docs |-> leadDocs, results |-> NoImport.results])
         IN /\ leadDocs' = out.docs
            /\ importCall' = [leads |-> leads, userId |-> userId,
                              threw |-> FALSE, results |-> out.results]

LeadImport ==
  /\ bulkImport
  /\ UNCHANGED <<runVars, pipeVars, batchVars, fetchVars, extractVars>>

LeadInit ==
  /\ site = "free"
  /\ jobConfig = IdleConfig
  /\ pc = "idle"
  /\ scraper = NoScraper
  /\ scrapeParams = NoParams
  /\ validation = NoValidation
  /\ result = InitResult
  /\ calls = <<>>
  /\ ScrapeIdle
  /\ PipeIdle
  /\ BatchIdle
  /\ FetchIdle
  /\ ExtractIdle
  /\ LeadIdle

LeadNext == LeadImport

LeadSpec == LeadInit /\ [][LeadNext]_vars

\* ------------------------------------------------------------------------
\* Properties
\* ------------------------------------------------------------------------
Terminal == pc \in {"returned", "thrown"}

\* the listings a value returned by scrape() holds
ListingsOf(x) ==
  CASE x.t = "array" -> x.v
    [] x.t = "object" -> x.jobs
    [] OTHER -> <<>>

PagesFetched == {pageLog[i].page : i \in 1..Len(pageLog)}

ZeroKinds == {"empty", "waitTimeout"}

\* the pages fetched so far are those of a site whose page 1 has listings
\* and whose later pages have none
EmptyFromPage2 ==
  /\ Len(pageLog) >= 1
  /\ pageLog[1].kind = "jobs"
  /\ \A i \in 2..Len(pageLog) : pageLog[i].kind \in ZeroKinds

CleanupFailed == ret.msg \in {"pageCloseFail", "browserCloseFail"}

\* C1: early stop. When page 1 yields fragments and every later page yields
\* none, a run with maxPages = 10 fetches no page beyond page 3 in HTTP mode
\* and none beyond page 2 in browser mode, and the run ends completed with
\* the listings collected so far.
C1_EarlyStop ==
  (scrapeParams.maxPages = JNum(StubMaxPages) /\ EmptyFromPage2) =>
    /\ \A p \in PagesFetched :
         p <= (IF IsBrowserMode(scraper.name) THEN 2 ELSE 3)
    /\ (Terminal /\ ~CleanupFailed) =>
         /\ result.status = "completed"
         /\ ListingsOf(result.jobs) # <<>>

\* C2: resource release. In browser mode, once scrape() has returned or
\* thrown, as many browser processes have been closed (browser.close()
\* called) as were launched, whichever step failed.
C2_BrowserReleased ==
  (IsBrowserMode(scraper.name) /\ spc = "done") => launched = closeCalls

\* C3: when the first page fetch of a run fails with a 403 and
\* continueOnError is false, the run ends failed, returns no listing and its
\* results hold exactly one error record.
C3_FirstFetchForbidden ==
  (/\ Terminal
   /\ ~jobConfig.continueOnError
   /\ Len(pageLog) >= 1
   /\ pageLog[1].kind = "error"
   /\ pageLog[1].msg = "403"
   /\ ~CleanupFailed) =>
    /\ result.status = "failed"
    /\ ListingsOf(result.jobs) = <<>>
    /\ Len(result.errors) = 1

\* a step that is a loop iteration whose fetch of page k failed
FetchErrorStep(k) ==
  /\ Len(pageLog') = Len(pageLog) + 1
  /\ pageLog'[Len(pageLog')].kind = "error"
  /\ pageLog'[Len(pageLog')].page = k

\* C4: with continueOnError set, for every adapter, a fetch error on page k
\* (k < maxPages) is recorded in the error records, the run goes on to fetch
\* page k + 1, and the listings of the earlier pages stay in the accumulator.
C4_ContinueAfterError ==
  [][\A k \in 1..(StubMaxPages + 1) :
       (jobConfig.continueOnError /\ FetchErrorStep(k) /\ k < MaxP) =>
         /\ \E i \in 1..Len(stats'.errors) : stats'.errors[i].page = k
         /\ allJobs' = allJobs
         /\ spc' = "loop"
         /\ PageNoOf(scraper.name, page') = k + 1]_vars

\* C5: with continueOnError set, an error that would otherwise be fatal for
\* the run makes executeJob return, not throw, a result that carries the
\* error record together with the listings accumulated before the error.
C5_PartialResult ==
  (Terminal /\ jobConfig.continueOnError /\ result.status = "failed") =>
    /\ pc = "returned"
    /\ Len(result.errors) >= 1
    /\ (allJobs # <<>> => ListingsOf(result.jobs) # <<>>)

\* every page fetched so far lies in 1..maxPages and was fetched once, and
\* the adapter counted one request per page (pageLog keeps every fetch of
\* the run, so the bound at the end of a run is the bound on the whole run)
FetchBound ==
  pageLog # <<>> =>
    /\ Len(pageLog) <= MaxP
    /\ stats.requestsMade = Len(pageLog)
    /\ \A i \in 1..Len(pageLog) : pageLog[i].page \in 1..MaxP
    /\ \A i, j \in 1..Len(pageLog) : i # j => pageLog[i].page # pageLog[j].page

\* C6: every run terminates. For any maxPages >= 1 and any sequence of page
\* outcomes the adapter fetches at most maxPages pages, pages 1..maxPages
\* each at most once, and the run eventually reaches a terminal status,
\* completed or failed.
C6_RunTerminates ==
  <>(result.status \in {"completed", "failed"} /\ FetchBound)

\* a run that fetched all its pages, met a failed fetch, an empty page and a
\* page with listings, and completed
C6_Witness ==
  /\ Terminal
  /\ result.status = "completed"
  /\ MaxP >= 3
  /\ Len(pageLog) = MaxP
  /\ {"error", "empty", "jobs"} \subseteq {pageLog[i].kind : i \in 1..Len(pageLog)}

\* C7: the status of a run only moves pending -> running,
\* running -> completed and running -> failed, and a terminal status is
\* never changed.
C7_StatusMachine ==
  [][result'.status # result.status =>
       <<result.status, result'.status>> \in
         {<<"pending", "running">>, <<"running", "completed">>,
          <<"running", "failed">>}]_vars

\* C7 (amended): the status of a run only moves pending -> running,
\* running -> completed, running -> failed and, when no adapter is selected
\* or validateParams reports errors so that scrape() is never invoked,
\* pending -> failed; a terminal status is never changed.
C7_StatusMachineAmended ==
  [][result'.status # result.status =>
       \/ <<result.status, result'.status>> \in
            {<<"pending", "running">>, <<"running", "completed">>,
             <<"running", "failed">>}
       \/ /\ <<result.status, result'.status>> = <<"pending", "failed">>
          /\ spc' = "idle"
          /\ (scraper'.name = "null" \/ ~validation'.isValid)]_vars

\* a run that failed without ever running
C7_Witness ==
  /\ Terminal
  /\ result.status = "failed"
  /\ spc = "idle"
  /\ Len(result.errors) = 1

\* C8: in every run driven by executeJob validateParams is called before
\* scrape, and when no adapter is selected or validation reports errors
\* scrape() is never invoked: no page is fetched and no browser launched.
C8_ValidateBeforeScrape ==
  /\ \A i \in 1..Len(calls) :
       calls[i] = "scrape" =>
         /\ \E j \in 1..(i - 1) : calls[j] = "validateParams"
         /\ validation.isValid
         /\ scraper.name # "null"
  /\ (pc \notin {"start", "selected"}
      /\ (scraper.name = "null" \/ validation.errors # <<>>)) =>
       /\ \A i \in 1..Len(calls) : calls[i] # "scrape"
       /\ spc = "idle"
       /\ pageLog = <<>>
       /\ stats.requestsMade = 0
       /\ launched = 0

\* a run whose adapter rejected the parameters
C8_Witness ==
  /\ Terminal
  /\ scraper.name # "null"
  /\ validation.errors # <<>>
  /\ result.status = "failed"

\* missing, empty or not a string
BadText(x) == ~(x.t = "string" /\ x.v # <<>>)

\* a page count outside the bound 1..20
OutOfBound(x) == x.t = "number" /\ ~x.nan /\ (x.v < 1 \/ x.v > NaukriMaxPages)

\* no page count, or one within the bound
AbsentOrInBound(x) ==
  x.t = "undefined" \/ (x.t = "number" /\ ~x.nan /\ x.v \in 1..NaukriMaxPages)

\* C9: for each of the four adapters validateParams returns invalid with a
\* non-empty error list when keyword or location is missing, empty or not a
\* string, or when maxPages lies outside the bound 1..20, and returns valid
\* with an empty error list otherwise.
C9_ValidateParams ==
  pc = "validated" =>
    /\ (\/ BadText(scrapeParams.keyword)
        \/ BadText(scrapeParams.location)
        \/ OutOfBound(scrapeParams.maxPages)) =>
         (~validation.isValid /\ validation.errors # <<>>)
    /\ (/\ ~BadText(scrapeParams.keyword)
        /\ ~BadText(scrapeParams.location)
        /\ AbsentOrInBound(scrapeParams.maxPages)) =>
         (validation.isValid /\ validation.errors = <<>>)

\* C10: dedup correctness. For every fragment list given to processJobs,
\* stats.final + stats.duplicates + stats.invalid = stats.original, the
\* length of the list, and stats.final is the length of the returned list.
C10_DedupCounts ==
  pOut # NoOut =>
    /\ pOut.stats.final + pOut.stats.duplicates + pOut.stats.invalid
         = pOut.stats.original
    /\ pOut.stats.original = Len(pIn)
    /\ pOut.stats.final = Len(pOut.jobs)

\* a list of which processJobs removed a duplicate and an invalid job and
\* kept a job
C10_Witness ==
  /\ pOut # NoOut
  /\ pOut.stats.duplicates > 0
  /\ pOut.stats.invalid > 0
  /\ pOut.stats.final > 0

\* C11: idempotent normalization. For every fragment list L, processJobs
\* applied to the listings processJobs(L) returned gives the same listings
\* back: no duplicate removed, no invalid listing removed, no field changed.
C11_Idempotent ==
  pAgain # NoOut =>
    /\ pAgain.jobs = pOut.jobs
    /\ pAgain.stats.duplicates = 0
    /\ pAgain.stats.invalid = 0

\* the default options of processJobs: dedupeBy 'jobId', removeInvalid true
DefaultPipeline == pOpts.dedupeBy = "jobId" /\ pOpts.removeInvalid

\* fragment k of the cleaned list c has the job id of an earlier fragment
LaterDuplicate(c, k) == \E j \in 1..(k - 1) : c[j].jobId = c[k].jobId

\* fragment k of the cleaned list c has neither title nor company
Untitled(c, k) == ~Truthy(c[k].title) /\ ~Truthy(c[k].company)

\* C12: of 15 fragments with 2 duplicates (by job id) of earlier fragments
\* and 1 fragment without title and company, processJobs returns 12 listings
\* with duplicates = 2 and invalid = 1; in general d later duplicates and i
\* fragments without title and company among n give final = n - d - i.
C12_Counts ==
  (pOut # NoOut /\ DefaultPipeline) =>
    LET c == cleanJobs(pIn, pOpts.baseUrl)
        d == Cardinality({k \in 1..Len(c) : LaterDuplicate(c, k)})
        i == Cardinality({k \in 1..Len(c) : ~LaterDuplicate(c, k) /\ Untitled(c, k)})
    IN /\ pOut.stats.final = Len(pIn) - d - i
       /\ pIn \in FifteenFrags =>
            /\ pOut.stats.final = 12
            /\ pOut.stats.duplicates = 2
            /\ pOut.stats.invalid = 1

\* the fifteen-fragment example alone
C12_Fifteen ==
  (pOut # NoOut /\ DefaultPipeline /\ pIn \in FifteenFrags) =>
    /\ Len(pOut.jobs) = 12
    /\ pOut.stats.duplicates = 2
    /\ pOut.stats.invalid = 1

\* fragment k of the cleaned list c has the dedup key of an earlier fragment
SameKeyEarlier(c, k) ==
  \E j \in 1..(k - 1) :
    DedupKey(c[j], pOpts.dedupeBy) = DedupKey(c[k], pOpts.dedupeBy)

\* the elements of c at the positions K, in the order of c
Pick(c, K) ==
  [n \in 1..Cardinality(K) |->
     c[CHOOSE k \in K : Cardinality({j \in K : j <= k}) = n]]

\* C13: the deduplicate stage removes a fragment if and only if an earlier
\* fragment of the list has the same dedup key (jobId, jobUrl or both, as
\* configured); the first fragment with each key is kept and
\* stats.duplicates counts exactly the later duplicates.
C13_FirstWins ==
  (pOut # NoOut /\ ~pOpts.removeInvalid
   /\ pOpts.dedupeBy \in {"jobId", "jobUrl", "both"}) =>
    LET c == cleanJobs(pIn, pOpts.baseUrl)
        firsts == {k \in 1..Len(c) : ~SameKeyEarlier(c, k)}
    IN /\ pOut.jobs = Pick(c, firsts)
       /\ pOut.stats.duplicates = Len(c) - Cardinality(firsts)

\* the sequences of ss one after the other
RECURSIVE Flatten(_)
Flatten(ss) == IF ss = <<>> THEN <<>> ELSE Head(ss) \o Flatten(Tail(ss))

\* the job ids of a list of fragments
IdsOf(jobs) == [i \in 1..Len(jobs) |-> jobs[i].jobId]

\* a is b with some of its elements left out
RECURSIVE IsSubseq(_, _)
IsSubseq(a, b) ==
  IF a = <<>> THEN TRUE
  ELSE IF b = <<>> THEN FALSE
  ELSE IF Head(a) = Head(b) THEN IsSubseq(Tail(a), Tail(b))
  ELSE IsSubseq(a, Tail(b))

\* C14: order preservation. The accumulator of a run holds the fragments in
\* page-then-card order (the cards of the pages fetched, pages in increasing
\* order), and the listings processJobs returns are a subsequence of its
\* (cleaned) input: survivors keep the relative order of their fragments.
C14_OrderPreserved ==
  /\ IdsOf(allJobs)
       = IdsOf(Flatten([i \in 1..Len(pageLog) |-> pageLog[i].cards]))
  /\ \A i, j \in 1..Len(pageLog) : i < j => pageLog[i].page < pageLog[j].page
  /\ pOut # NoOut => IsSubseq(pOut.jobs, cleanJobs(pIn, pOpts.baseUrl))

\* a list of three fragments of which processJobs dropped the second and
\* kept the first and the third, two different listings
C14_Witness ==
  /\ pOut # NoOut
  /\ Len(pIn) = 3
  /\ Len(pOut.jobs) = 2
  /\ pOut.jobs[1] # pOut.jobs[2]
  /\ pOut.jobs[1] = cleanJob(pIn[1], pOpts.baseUrl)
  /\ pOut.jobs[2] = cleanJob(pIn[3], pOpts.baseUrl)

\* the listings of a run that came to its end
Returned == ListingsOf(result.jobs)

\* C15: duplicate-free output. The listings a run returns, for any of the
\* four adapters, hold no two listings with the same job id, also when the
\* same posting was extracted on two pages of the run.
C15_NoDuplicateIds ==
  (Terminal /\ result.status = "completed") =>
    \A i, j \in 1..Len(Returned) :
      i # j => Returned[i].jobId # Returned[j].jobId

\* C16: every listing a run returns, for any of the four adapters, has
\* passed through the normalization pipeline (cleaning it again changes
\* nothing) and has a title or a company, and a job id or a job URL.
C16_ListingInvariant ==
  (Terminal /\ result.status = "completed") =>
    \A i \in 1..Len(Returned) :
      /\ IsValidJob(Returned[i])
      /\ cleanJob(Returned[i], scraper.baseUrl) = Returned[i]

\* C17: for every adapter, cleanup() is called before scrape() returns or
\* throws, on every path of the run: completed, stopped early or failed.
C17_CleanupCalled ==
  spc = "done" =>
    \E i, j \in 1..Len(calls) :
      i < j /\ calls[i] = "scrape" /\ calls[j] = "cleanup"

\* the record of the page a step has just processed
LastPage == pageLog'[Len(pageLog')]

\* C18: onProgress is called after each page the run processes, a page
\* without fragments included: the events come in strictly increasing
\* currentPage order, one per page processed, and jobsFound is the size of
\* the accumulator at that moment.
C18_ProgressPerPage ==
  [][Len(pageLog') = Len(pageLog) + 1 =>
       /\ LastPage.kind \in {"jobs", "empty", "waitTimeout"} => LastPage.progress
       /\ LastPage.progress =>
            /\ result'.pagesScraped = LastPage.page
            /\ result'.pagesScraped > result.pagesScraped
            /\ result'.totalJobs = JNum(Len(allJobs'))]_vars

\* the host of a URL: what stands between the scheme and the first "/" or
\* "?q="
HostOf(url) ==
  LET rest == Tail(url)
      cut == {i \in 1..Len(rest) : rest[i] \in {"/", "?q="}}
  IN IF cut = {} THEN rest
     ELSE SubSeq(rest, 1, (CHOOSE i \in cut : \A j \in cut : i <= j) - 1)

\* the domain of the URL is d (host names compare without case)
DomainIs(url, d) ==
  LET host == ToLower(HostOf(url))
  IN host # <<>> /\ host[Len(host)] = d

\* C19: selectScraper is a function of the domain of the target URL and of
\* the fetch-strategy flag: an indeed.com domain yields IndeedScraper or
\* PlaywrightIndeedScraper, a naukri.com domain NaukriScraper or
\* PlaywrightNaukriScraper, and any other domain no adapter, whatever
\* appears elsewhere in the URL.
C19_SelectByDomain ==
  pc # "start" =>
    scraper.name =
      IF DomainIs(jobConfig.targetUrl, "indeed.com")
      THEN IF jobConfig.usePlaywright
           THEN "PlaywrightIndeedScraper" ELSE "IndeedScraper"
      ELSE IF DomainIs(jobConfig.targetUrl, "naukri.com")
      THEN IF jobConfig.usePlaywright
           THEN "PlaywrightNaukriScraper" ELSE "NaukriScraper"
      ELSE "null"

\* a well-formed absolute http(s) URL: an http or https scheme and then a
\* host
WellFormedHttpUrl(s) ==
  /\ Len(s) >= 2
  /\ s[1] \in {"http://", "https://"}
  /\ ~IsWs(s[2])
  /\ s[2] \notin {"/", "//", "?q="}

\* C20: whatever the detail URL and the base URL, every listing the pipeline
\* returns carries either null or a well-formed absolute http(s) URL; no
\* relative or malformed URL string is returned.
C20_AbsoluteOrNull ==
  pOut # NoOut =>
    \A i \in 1..Len(pOut.jobs) :
      \/ pOut.jobs[i].jobUrl = JNull
      \/ IsStr(pOut.jobs[i].jobUrl) /\ WellFormedHttpUrl(pOut.jobs[i].jobUrl.v)

\* browser processes running: those the earlier jobs of the batch left
\* behind and those of the job that runs
BrowsersAlive ==
  alive + (IF bpc = "job" THEN launched - closeCalls ELSE 0)

\* C21: executeMultipleJobs runs the jobs of a batch one after another: job
\* i + 1 starts only when job i has finished (its result is pushed) and the
\* delay between jobs has been awaited, and at no time during a batch is
\* more than one browser process alive.
C21_OneAtATime ==
  /\ bpc = "job" =>
       /\ Len(results) = jobIndex
       /\ delays = jobIndex
  /\ bpc # "idle" => BrowsersAlive <= 1

\* the sequencing part of C21 alone
C21_Sequential ==
  bpc = "job" => Len(results) = jobIndex /\ delays = jobIndex

\* C22: for each of the four adapters scrape() returns a list of listings,
\* and for every completed run result.jobs is that list and
\* result.results.totalJobs is the number of listings in it.
C22_JobsIsList ==
  (pc = "returned" /\ result.status = "completed") =>
    /\ ret.value.t = "array"
    /\ result.jobs = ret.value
    /\ result.totalJobs = JNum(Len(ListingsOf(result.jobs)))

\* no delay between pages is awaited after the last page a run fetches
NoSleepAfterLast ==
  (spc \in {"after", "cleanup", "done"} /\ pageLog # <<>>) =>
    ~pageLog[Len(pageLog)].slept

\* C23: between any two consecutive page fetches of a run the adapter
\* awaits the delay between pages, whatever the earlier page came to
\* (listings, empty, error), and no such delay follows the last page fetched.
C23_DelayBetweenPages ==
  /\ \A i \in 1..(Len(pageLog) - 1) : pageLog[i].slept
  /\ NoSleepAfterLast

\* the requests fetchHtml has issued
Requests == SelectSeq(fetchLog, LAMBDA e : e.ev = "request")

\* the retry budget of the call: options.maxRetries, 0 when it is left out
Budget == IF fetchOpts = JUndef THEN 0 ELSE fetchOpts.v

Is2xx(r) == r.code = "" /\ r.status \in 200..299

\* C24: bounded retry.  fetchHtml with retry budget maxRetries (a count, 0
\* or more) issues at most maxRetries + 1 requests, awaits the retry delay
\* exactly between consecutive attempts, returns the body of the first 2xx
\* response and issues no request after it, throws the last error after
\* maxRetries + 1 failed attempts, and with the default budget issues
\* exactly one request.
C24_BoundedRetry ==
  /\ Len(Requests) <= IF Budget >= 0 THEN Budget + 1 ELSE 0
  /\ fetchLog # <<>> => fetchLog[1].ev = "request"
  /\ \A i \in 1..(Len(fetchLog) - 1) :
       /\ fetchLog[i].ev # fetchLog[i + 1].ev
       /\ fetchLog[i].ev = "request" => ~Is2xx(fetchLog[i].resp)
  /\ (fpc = "done" /\ fetchLog # <<>>) => fetchLog[Len(fetchLog)].ev = "request"
  /\ (fpc = "done" /\ fret.kind = "return") =>
       /\ Is2xx(fetchLog[Len(fetchLog)].resp)
       /\ fret.value = JStr(fetchLog[Len(fetchLog)].resp.data)
  /\ (fpc = "done" /\ fret.kind = "throw" /\ Budget >= 0) =>
       /\ Len(Requests) = Budget + 1
       /\ \A i \in 1..Len(Requests) : ~Is2xx(Requests[i].resp)
       /\ fret.value = ErrorOf(Requests[Len(Requests)].resp)
  /\ (fpc = "done" /\ fetchOpts = JUndef) => Len(Requests) = 1

\* a call with budget 3 that failed twice, waited twice and returned the
\* body of its third response
C24_Witness ==
  /\ fpc = "done"
  /\ fret.kind = "return"
  /\ Budget = 3
  /\ Len(Requests) = 3
  /\ Len(fetchLog) = 5

\* the pages of the run were fetched, and the wait for a visible listing
\* card timed out on one of them
OnlyWaitTimeouts ==
  /\ \E i \in 1..Len(pageLog) : pageLog[i].kind = "waitTimeout"
  /\ \A i \in 1..Len(pageLog) : pageLog[i].kind \in {"jobs", "empty", "waitTimeout"}

C26_ExtractionAbsorbed ==
  /\ [][(Len(pageLog') = Len(pageLog) + 1 /\ LastPage.kind = "extractError") =>
          /\ ret'.kind # "throw"
          /\ spc' \in {"loop", "after"}
          /\ allJobs' = allJobs]_vars
  /\ []((/\ Terminal
         /\ ~CleanupFailed
         /\ \A i \in 1..Len(pageLog) :
              pageLog[i].kind \in {"jobs", "empty", "extractError"}
         /\ \E i \in 1..Len(pageLog) : pageLog[i].kind = "extractError") =>
          result.status = "completed")

\* the text a field of a matched card resolves to: empty when there is no
\* element or nothing but whitespace in it
Resolved(el) == IF el = JUndef THEN <<>> ELSE Trim(el.v)

\* a resolved text as a fragment field: null when empty
FieldOf(el) == IF Resolved(el) = <<>> THEN JNull ELSE JStr(Resolved(el))

\* the cards that contribute a fragment: title or organization not empty
Contributing ==
  SelectSeq(jobCards,
            LAMBDA c : Resolved(c.title) # <<>> \/ Resolved(c.company) # <<>>)

\* C27: for every adapter's extractor a matched card is skipped exactly
\* when both its title and its organization resolve to empty; every other
\* card contributes a fragment, in order, whose missing fields are null.
C27_CardSkippedIffEmpty ==
  extracted.done =>
    /\ Len(extracted.jobs) = Len(Contributing)
    /\ \A k \in 1..Len(extracted.jobs) :
         /\ extracted.jobs[k].title = FieldOf(Contributing[k].title)
         /\ extracted.jobs[k].company = FieldOf(Contributing[k].company)
         /\ extracted.jobs[k].location = FieldOf(Contributing[k].location)

\* a step of IndeedScraper's loop that leaves the loop by break
IndeedBreaks ==
  /\ scraper.name = "IndeedScraper"
  /\ Len(pageLog') = Len(pageLog) + 1
  /\ spc' = "after"
  /\ page' = page

\* the n most recent pages all came to kind
LastPagesAre(n, kind) ==
  /\ Len(pageLog') >= n
  /\ \A i \in (Len(pageLog') - n + 1)..Len(pageLog') : pageLog'[i].kind = kind

\* C28: IndeedScraper stops pagination early only when the two most recent
\* pages were both fetched and both yielded no fragment, or when the three
\* most recent pages all failed with an error; an empty page next to a
\* failed page does not stop the run, and a page with fragments resets the
\* counts.
C28_EarlyStopCounts ==
  [][/\ IndeedBreaks =>
          \/ LastPagesAre(EmptyPagesStop, "empty")
          \/ LastPagesAre(ErrorPagesStop, "error")
     /\ (scraper.name = "IndeedScraper" /\ Len(pageLog') = Len(pageLog) + 1
         /\ LastPage.kind = "jobs") => consecutiveEmptyPages' = 0]_vars

\* C29: after any run of any adapter, whatever the page outcomes, the
\* counters of getStats() satisfy requestsMade = successfulRequests +
\* failedRequests, and requestsMade is the number of page fetches the run
\* attempted, at most maxPages.
C29_StatsAddUp ==
  spc = "done" =>
    /\ stats.requestsMade = stats.successfulRequests + stats.failedRequests
    /\ stats.requestsMade = Len(pageLog)
    /\ stats.requestsMade <= MaxP

\* a finished run that has fetched with success and without
C29_Witness ==
  /\ spc = "done"
  /\ stats.successfulRequests >= 1
  /\ stats.failedRequests >= 2
  /\ stats.requestsMade = MaxP

\* the documents user u owns with email e
Owned(docs, e, u) ==
  {d \in 1..Len(docs) : docs[d].email = e /\ docs[d].createdBy = u}

\* a lead of the last call that could be stored: it has an email and a name
Storable(data) == Truthy(data.email) /\ Truthy(data.name)

\* C30: bulkImport scopes duplicate detection to the importing user.  After
\* a call, every lead it created is owned by the given userId; a lead whose
\* email the user already has is counted as a duplicate and not created
\* again; a lead whose email only another user has is imported for this
\* user; and imported + duplicates + errors is the number of leads given.
C30_UserScopedImport ==
  [][~importCall'.threw =>
       LET call == importCall'
           u == call.userId
       IN /\ \A d \in (Len(leadDocs) + 1)..Len(leadDocs') :
               leadDocs'[d].createdBy = u
          /\ \A e \in {JStr(<<"e1">>), JStr(<<"e2">>)} :
               Cardinality(Owned(leadDocs', e, u)) <= 1
          /\ call.results.duplicates >=
               Cardinality({k \in 1..Len(call.leads) :
                              Owned(leadDocs, call.leads[k].email, u) # {}})
          /\ \A k \in 1..Len(call.leads) :
               Storable(call.leads[k]) =>
                 Owned(leadDocs', call.leads[k].email, u) # {}
          /\ call.results.imported + call.results.duplicates
               + call.results.errors = Len(call.leads)]_vars

====
